---- MODULE Spec2Model ----
(***************************************************************************)
(* Model of evaluation/eval.py: main() of the evaluation harness.          *)
(* The state is the parsed configuration, the filesystem, the locals of    *)
(* main(), the global random state and the trace of calls main() makes to  *)
(* its collaborators (model hub, filesystem, task registry, tasks).        *)
(* fs_at_start keeps the filesystem the process started with.              *)
(* One action per statement group of main(); pc is main()'s position.      *)
(*                                                                         *)
(* Python values:                                                          *)
(*   Optional[T]   a set with at most one element (None is {})             *)
(*   path / tag    a sequence of one-character strings                     *)
(*   identifiers   TLA+ strings (only compared and measured)               *)
(***************************************************************************)
EXTENDS Integers, Sequences, FiniteSets, TLC

VARIABLES eval_args, train_args, fs_at_start, fs, pc, error, device, tokenizer, MODEL_TYPE,
          model, tag, output_dir, now, i, task, rng, saved, trace, nextId

vars == <<eval_args, train_args, fs_at_start, fs, pc, error, device, tokenizer, MODEL_TYPE,
          model, tag, output_dir, now, i, task, rng, saved, trace, nextId>>

\* What main() never assigns after parsing.
config == <<eval_args, train_args, fs_at_start>>

-----------------------------------------------------------------------------
(* Bounds *)

MaxTasks == 3

-----------------------------------------------------------------------------
(* Python values *)

None == {}

Some(v) == {v}

Get(o) == CHOOSE v \in o : TRUE

\* Python truthiness of an Optional[str]: None and the empty string are falsy.
Truthy(o) == o # None /\ Len(Get(o)) > 0

\* `a or b`: a when a is truthy, else b (b is evaluated only in that case).
PyOr(a, b) == IF Truthy(a) THEN Get(a) ELSE b

-----------------------------------------------------------------------------
(* Paths *)

\* os.path.join(a, b) on POSIX: an absolute b discards a; otherwise b is
\* appended, with a separator unless a is empty or already ends with one.
os_path_join(a, b) ==
    IF Len(b) > 0 /\ b[1] = "/" THEN b
    ELSE IF Len(a) = 0 \/ a[Len(a)] = "/" THEN a \o b
    ELSE a \o <<"/">> \o b

\* os.path.exists(p): the empty path never exists.
os_path_exists(files, p) == Len(p) > 0 /\ p \in files

\* The directories os.makedirs(p) leaves on disk: p and each of its ancestors.
os_makedirs(files, p) ==
    files \cup {p}
          \cup {SubSeq(p, 1, k - 1) : k \in {j \in 2..Len(p) : p[j] = "/"}}

-----------------------------------------------------------------------------
(* datetime.now().strftime("%y%m%d_%H%M%S") *)

Digits == <<"0", "1", "2", "3", "4", "5", "6", "7", "8", "9">>

\* A field printed zero-padded on two digits.
TwoDigits(n) == <<Digits[((n \div 10) % 10) + 1], Digits[(n % 10) + 1]>>

strftime(t) ==
    TwoDigits(t.year % 100) \o TwoDigits(t.month) \o TwoDigits(t.day)
      \o <<"_">> \o TwoDigits(t.hour) \o TwoDigits(t.minute) \o TwoDigits(t.second)

\* The wall clock readings a run may get.
Clocks ==
    { [year |-> 2021, month |-> 9, day |-> 3, hour |-> 7, minute |-> 5, second |-> 9],
      [year |-> 2026, month |-> 11, day |-> 2, hour |-> 22, minute |-> 30, second |-> 59] }

\* The timestamp taken only when no tag was given at all.
ResolveTag_NoneOnly(given, t) == IF given = None THEN strftime(t) ELSE Get(given)

\* Line 79; t is what datetime.now() returns if it is called.
ResolveTag(given, t) == PyOr(given, strftime(t))

-----------------------------------------------------------------------------
(* The model hub: what from_pretrained returns for an identifier *)

HubIds == {"gpt2", "bigscience/T0", "bigscience/T0_3B", "bigscience/T0pp"}

\* AutoTokenizer.from_pretrained(name), as published: special tokens, their
\* ids, padding side and len(tokenizer).
HubTokenizer(name) ==
    IF name = "gpt2"
    THEN [name |-> name, eos_token |-> Some("<|endoftext|>"), pad_token |-> None,
          vocab |-> ("<|endoftext|>" :> 50256), padding_side |-> "right",
          length |-> 50257]
    ELSE [name |-> name, eos_token |-> Some("</s>"), pad_token |-> Some("<pad>"),
          vocab |-> ("</s>" :> 1 @@ "<pad>" :> 0), padding_side |-> "right",
          length |-> 32100]

\* The config of the checkpoint an identifier names.
HubConfig(name) ==
    IF name = "gpt2"
    THEN [eos_token_id |-> Some(50256), pad_token_id |-> None, vocab_size |-> 50257]
    ELSE [eos_token_id |-> Some(1), pad_token_id |-> Some(0), vocab_size |-> 32128]

\* tokenizer.pad_token_id: the id of the pad token, None without a pad token.
pad_token_id(tok) ==
    IF tok.pad_token = None THEN None ELSE Some(tok.vocab[Get(tok.pad_token)])

\* tokenizer.eos_token_id
eos_token_id(tok) ==
    IF tok.eos_token = None THEN None ELSE Some(tok.vocab[Get(tok.eos_token)])

-----------------------------------------------------------------------------
(* Configuration: the two dataclasses parse_args_into_dataclasses returns *)

TaskNames == {"task_a", "task_b", "jigsaw_toxicity_pred"}

TaskLists == UNION {[1..n -> TaskNames] : n \in 0..MaxTasks}

DataPath == <<"/", "d">>

OtherPath == <<"/", "x">>

ModelIds == HubIds

TokenizerNames == {None, Some(""), Some("gpt2"), Some("bigscience/T0")}

Tags == {None, Some(<<>>), Some(<<"r">>), Some(<<"/", "r">>)}

DataDirs == {None, Some(<<>>), Some(DataPath), Some(OtherPath)}

OutputDirs == {<<"o">>, <<"/", "o", "/">>}

Seeds == {42, 1234}

\* One plain run: every run below differs from it in the fields one part of
\* main() reads.
DefaultEval ==
    [model_name_or_path |-> "gpt2", eval_tasks |-> <<"task_a">>,
     config_name |-> None, tokenizer_name |-> None, tag |-> Some(<<"r">>),
     english_only |-> TRUE, data_dir |-> None]

DefaultTrain == [device |-> "cpu", output_dir |-> <<"o">>, seed |-> 42]

\* Runs that differ in what the precondition checks read (lines 40-53).
ValidationRuns ==
    { <<[DefaultEval EXCEPT !.eval_tasks = t, !.data_dir = d], DefaultTrain, f>> :
        t \in TaskLists, d \in DataDirs, f \in {{}, {DataPath}} }

\* Runs that differ in what the loader reads (lines 63-76).
LoaderRuns ==
    { <<[DefaultEval EXCEPT !.model_name_or_path = m, !.tokenizer_name = k,
                            !.config_name = c], DefaultTrain, {}>> :
        m \in ModelIds, k \in TokenizerNames, c \in {None, Some("gpt2")} }

\* Runs that differ in what the export step reads (lines 79-81).
ExportRuns ==
    { <<[DefaultEval EXCEPT !.tag = g], [DefaultTrain EXCEPT !.output_dir = o], f>> :
        g \in Tags, o \in OutputDirs, f \in {{}, {<<"o">>, <<"o", "/", "r">>}} }

\* Runs that differ in what the dispatch loop reads (lines 83-95).
DispatchRuns ==
    { <<[DefaultEval EXCEPT !.eval_tasks = t, !.english_only = e,
                            !.data_dir = Some(DataPath)],
        [DefaultTrain EXCEPT !.seed = s, !.device = v], {DataPath}>> :
        t \in TaskLists, e \in BOOLEAN, s \in Seeds, v \in {"cpu", "cuda:0"} }

Runs == ValidationRuns \cup LoaderRuns \cup ExportRuns \cup DispatchRuns

\* The random state before any set_seed: seeded from OS entropy.
Unseeded == [seed |-> None, draws |-> 0]

NoTokenizer == [id |-> 0]

NoModel == [id |-> 0]

\* The state when parse_args_into_dataclasses has returned (line 38).
Init ==
    /\ \E r \in Runs : eval_args = r[1] /\ train_args = r[2] /\ fs = r[3]
    /\ fs_at_start = fs
    /\ pc = "validate"
    /\ error = "none"
    /\ device = None
    /\ tokenizer = NoTokenizer
    /\ MODEL_TYPE = None
    /\ model = NoModel
    /\ tag = None
    /\ output_dir = None
    /\ now = None
    /\ i = 0
    /\ task = None
    /\ rng = Unseeded
    /\ saved = <<>>
    /\ trace = <<>>
    /\ nextId = 1

\* raise: the exception leaves main(); nothing catches it.
Raise(e) == pc' = "failed" /\ error' = e

Call(event) == trace' = Append(trace, event)

-----------------------------------------------------------------------------
(* Precondition checks, lines 40-53 *)

RaiseNoTasks ==
    /\ pc = "validate"
    /\ Len(eval_args.eval_tasks) = 0
    /\ Raise("ValueError")
    /\ UNCHANGED <<config, fs, device, tokenizer, MODEL_TYPE, model, tag,
                   output_dir, now, i, task, rng, saved, trace, nextId>>

NeedsDataDir(tasks) == \E k \in 1..Len(tasks) : tasks[k] = "jigsaw_toxicity_pred"

RaiseNoDataDir ==
    /\ pc = "validate"
    /\ Len(eval_args.eval_tasks) > 0
    /\ NeedsDataDir(eval_args.eval_tasks)
    /\ eval_args.data_dir = None
    /\ Raise("ValueError")
    /\ UNCHANGED <<config, fs, device, tokenizer, MODEL_TYPE, model, tag,
                   output_dir, now, i, task, rng, saved, trace, nextId>>

RaiseDataDirMissing ==
    /\ pc = "validate"
    /\ Len(eval_args.eval_tasks) > 0
    /\ NeedsDataDir(eval_args.eval_tasks)
    /\ eval_args.data_dir # None
    /\ ~os_path_exists(fs, Get(eval_args.data_dir))
    /\ Raise("ValueError")
    /\ UNCHANGED <<config, fs, device, tokenizer, MODEL_TYPE, model, tag,
                   output_dir, now, i, task, rng, saved, trace, nextId>>

\* Validated without the check of line 40.
Validated_NoEmptyCheck ==
    /\ pc = "validate"
    /\ NeedsDataDir(eval_args.eval_tasks) =>
          /\ eval_args.data_dir # None
          /\ os_path_exists(fs, Get(eval_args.data_dir))
    /\ pc' = "init_device"
    /\ UNCHANGED <<config, fs, error, device, tokenizer, MODEL_TYPE, model, tag,
                   output_dir, now, i, task, rng, saved, trace, nextId>>

\* Validated without the check of line 49.
Validated_NoExistsCheck ==
    /\ pc = "validate"
    /\ Len(eval_args.eval_tasks) > 0
    /\ NeedsDataDir(eval_args.eval_tasks) => eval_args.data_dir # None
    /\ pc' = "init_device"
    /\ UNCHANGED <<config, fs, error, device, tokenizer, MODEL_TYPE, model, tag,
                   output_dir, now, i, task, rng, saved, trace, nextId>>

Validated ==
    /\ pc = "validate"
    /\ Len(eval_args.eval_tasks) > 0
    /\ NeedsDataDir(eval_args.eval_tasks) =>
          /\ eval_args.data_dir # None
          /\ os_path_exists(fs, Get(eval_args.data_dir))
    /\ pc' = "init_device"
    /\ UNCHANGED <<config, fs, error, device, tokenizer, MODEL_TYPE, model,
                   tag, output_dir, now, i, task, rng, saved, trace, nextId>>

\* InitDevice with the output directory created here, ahead of the loading.
InitDevice_MakedirsFirst ==
    /\ pc = "init_device"
    /\ device' = Some(train_args.device)
    /\ \E t \in Clocks :
         LET dir == os_path_join(train_args.output_dir, ResolveTag(eval_args.tag, t))
         IN /\ trace' = Append(trace, [op |-> "os.makedirs", path |-> dir])
            /\ fs' = os_makedirs(fs, dir)
    /\ pc' = "load_tokenizer"
    /\ UNCHANGED <<config, error, tokenizer, MODEL_TYPE, model, tag, output_dir,
                   now, i, task, rng, saved, nextId>>

\* Lines 56-59.
InitDevice ==
    /\ pc = "init_device"
    /\ device' = Some(train_args.device)
    /\ pc' = "load_tokenizer"
    /\ UNCHANGED <<config, fs, error, tokenizer, MODEL_TYPE, model, tag,
                   output_dir, now, i, task, rng, saved, trace, nextId>>

-----------------------------------------------------------------------------
(* Model and tokenizer loading, lines 61-76 *)

\* Line 63: the identifier the tokenizer is loaded from.
TokenizerId(args) == PyOr(args.tokenizer_name, args.model_name_or_path)

\* Lines 63-65.
LoadTokenizer ==
    /\ pc = "load_tokenizer"
    /\ LET name == TokenizerId(eval_args)
           loaded == HubTokenizer(name)
       IN /\ Call([op |-> "AutoTokenizer.from_pretrained", name |-> name])
          /\ tokenizer' = [id |-> nextId, name |-> loaded.name,
                           eos_token |-> loaded.eos_token,
                           pad_token |-> loaded.eos_token,
                           vocab |-> loaded.vocab,
                           padding_side |-> "left",
                           length |-> loaded.length]
    /\ nextId' = nextId + 1
    /\ pc' = "load_model"
    /\ UNCHANGED <<config, fs, error, device, MODEL_TYPE, model, tag,
                   output_dir, now, i, task, rng, saved>>

\* Line 63 raises (unknown identifier, network or storage failure).
LoadTokenizerFail ==
    /\ pc = "load_tokenizer"
    /\ Call([op |-> "AutoTokenizer.from_pretrained", name |-> TokenizerId(eval_args)])
    /\ Raise("LoadError")
    /\ UNCHANGED <<config, fs, device, tokenizer, MODEL_TYPE, model, tag,
                   output_dir, now, i, task, rng, saved, nextId>>

\* The allowlist short of one of its two names.
SelectModelType_ShortList(name) ==
    IF name \in {"bigscience/T0_3B"}
    THEN "AutoModelForSeq2SeqLM"
    ELSE "AutoModelForCausalLM"

\* Lines 66-69.
SelectModelType(name) ==
    IF name \in {"bigscience/T0_3B", "bigscience/T0"}
    THEN "AutoModelForSeq2SeqLM"
    ELSE "AutoModelForCausalLM"

\* Lines 70-74: the config of the loaded model. The keyword argument of
\* line 72 overrides the published pad_token_id; line 74 then assigns it.
LoadedConfig(name, tok) ==
    LET given == [HubConfig(name) EXCEPT !.pad_token_id = tok.eos_token]
    IN [given EXCEPT !.pad_token_id = given.eos_token_id]

\* Lines 66-76.
LoadModel ==
    /\ pc = "load_model"
    /\ LET name == eval_args.model_name_or_path
           type == SelectModelType(name)
       IN /\ MODEL_TYPE' = Some(type)
          /\ Call([op |-> "MODEL_TYPE.from_pretrained", name |-> name, type |-> type])
          /\ model' = [id |-> nextId, name |-> name, type |-> type,
                       config |-> [LoadedConfig(name, tokenizer)
                                     EXCEPT !.vocab_size = tokenizer.length],
                       device |-> Get(device)]
    /\ nextId' = nextId + 1
    /\ pc' = "export"
    /\ UNCHANGED <<config, fs, error, device, tokenizer, tag, output_dir, now,
                   i, task, rng, saved>>

\* Line 70 raises.
LoadModelFail ==
    /\ pc = "load_model"
    /\ LET name == eval_args.model_name_or_path
           type == SelectModelType(name)
       IN /\ MODEL_TYPE' = Some(type)
          /\ Call([op |-> "MODEL_TYPE.from_pretrained", name |-> name, type |-> type])
    /\ Raise("LoadError")
    /\ UNCHANGED <<config, fs, device, tokenizer, model, tag, output_dir, now,
                   i, task, rng, saved, nextId>>

-----------------------------------------------------------------------------
(* Exporting results, lines 78-81 *)

\* Lines 79-81. The clock is read only when the tag argument is falsy.
Export ==
    /\ pc = "export"
    /\ \E t \in Clocks :
         LET g == ResolveTag(eval_args.tag, t)
             dir == os_path_join(train_args.output_dir, g)
         IN /\ now' = IF Truthy(eval_args.tag) THEN None ELSE Some(t)
            /\ tag' = Some(g)
            /\ output_dir' = Some(dir)
            /\ Call([op |-> "os.makedirs", path |-> dir])
            /\ fs' = os_makedirs(fs, dir)
    /\ pc' = "for"
    /\ UNCHANGED <<config, error, device, tokenizer, MODEL_TYPE, model, i,
                   task, rng, saved, nextId>>

\* Line 81 raises (no permission, a file in the way).
ExportFail ==
    /\ pc = "export"
    /\ \E t \in Clocks :
         LET g == ResolveTag(eval_args.tag, t)
             dir == os_path_join(train_args.output_dir, g)
         IN /\ now' = IF Truthy(eval_args.tag) THEN None ELSE Some(t)
            /\ tag' = Some(g)
            /\ output_dir' = Some(dir)
            /\ Call([op |-> "os.makedirs", path |-> dir])
    /\ Raise("OSError")
    /\ UNCHANGED <<config, fs, device, tokenizer, MODEL_TYPE, model, i, task,
                   rng, saved, nextId>>

-----------------------------------------------------------------------------
(* The dispatch loop, lines 83-95 *)

\* Randomness a collaborator may consume in one call.
Draws == {0, 1}

Consume(r, d) == [r EXCEPT !.draws = @ + d]

\* set_seed(seed)
set_seed(seed) == [seed |-> Some(seed), draws |-> 0]

\* ForNext with the model loaded again for each task.
ForNext_ReloadsModel ==
    /\ pc = "for"
    /\ i < Len(eval_args.eval_tasks)
    /\ i' = i + 1
    /\ trace' = Append(trace, [op |-> "MODEL_TYPE.from_pretrained",
                               name |-> model.name, type |-> model.type])
    /\ model' = [model EXCEPT !.id = nextId]
    /\ nextId' = nextId + 1
    /\ pc' = "resolve"
    /\ UNCHANGED <<config, fs, error, device, tokenizer, MODEL_TYPE, tag,
                   output_dir, now, task, rng, saved>>

\* Line 83: the next task name, or the end of the list.
ForNext ==
    /\ pc = "for"
    /\ i < Len(eval_args.eval_tasks)
    /\ i' = i + 1
    /\ pc' = "resolve"
    /\ UNCHANGED <<config, fs, error, device, tokenizer, MODEL_TYPE, model,
                   tag, output_dir, now, task, rng, saved, trace, nextId>>

ForEnd ==
    /\ pc = "for"
    /\ i >= Len(eval_args.eval_tasks)
    /\ pc' = "done"
    /\ UNCHANGED <<config, fs, error, device, tokenizer, MODEL_TYPE, model,
                   tag, output_dir, now, i, task, rng, saved, trace, nextId>>

\* The task list walked from its end.
eval_task_Reversed == eval_args.eval_tasks[Len(eval_args.eval_tasks) - i + 1]

\* Line 83: the loop variable eval_task.
eval_task == eval_args.eval_tasks[i]

\* The call of lines 85-92, with the objects it passes.
FromTaskName ==
    [op |-> "AutoTask.from_task_name", task |-> eval_task,
     model |-> model, tokenizer |-> tokenizer, device |-> Get(device),
     english_only |-> eval_args.english_only, data_dir |-> eval_args.data_dir]

\* Lines 84-92.
Resolve ==
    /\ pc = "resolve"
    /\ Call(FromTaskName)
    /\ task' = Some([name |-> eval_task, index |-> i])
    /\ \E d \in Draws : rng' = Consume(rng, d)
    /\ pc' = "seed"
    /\ UNCHANGED <<config, fs, error, device, tokenizer, MODEL_TYPE, model,
                   tag, output_dir, now, i, saved, nextId>>

ResolveFail ==
    /\ pc = "resolve"
    /\ Call(FromTaskName)
    /\ \E d \in Draws : rng' = Consume(rng, d)
    /\ Raise("TaskError")
    /\ UNCHANGED <<config, fs, device, tokenizer, MODEL_TYPE, model, tag,
                   output_dir, now, i, task, saved, nextId>>

\* Seed with the seed set for the first task only.
Seed_FirstTaskOnly ==
    /\ pc = "seed"
    /\ trace' = Append(trace, [op |-> "set_seed", seed |-> train_args.seed])
    /\ rng' = IF i = 1 THEN set_seed(train_args.seed) ELSE rng
    /\ pc' = "evaluate"
    /\ UNCHANGED <<config, fs, error, device, tokenizer, MODEL_TYPE, model, tag,
                   output_dir, now, i, task, saved, nextId>>

\* Line 93.
Seed ==
    /\ pc = "seed"
    /\ Call([op |-> "set_seed", seed |-> train_args.seed])
    /\ rng' = set_seed(train_args.seed)
    /\ pc' = "evaluate"
    /\ UNCHANGED <<config, fs, error, device, tokenizer, MODEL_TYPE, model,
                   tag, output_dir, now, i, task, saved, nextId>>

\* The random state task.evaluate() starts from is recorded with the call.
EvaluateCall == [op |-> "evaluate", task |-> Get(task).name, rng |-> rng]

\* Line 94.
Evaluate ==
    /\ pc = "evaluate"
    /\ Call(EvaluateCall)
    /\ \E d \in Draws : rng' = Consume(rng, d)
    /\ pc' = "save"
    /\ UNCHANGED <<config, fs, error, device, tokenizer, MODEL_TYPE, model,
                   tag, output_dir, now, i, task, saved, nextId>>

\* EvaluateFail with the exception caught and the loop going on.
EvaluateFail_Caught ==
    /\ pc = "evaluate"
    /\ trace' = Append(trace, EvaluateCall)
    /\ \E d \in Draws : rng' = Consume(rng, d)
    /\ error' = "TaskError"
    /\ pc' = "for"
    /\ UNCHANGED <<config, fs, device, tokenizer, MODEL_TYPE, model, tag,
                   output_dir, now, i, task, saved, nextId>>

EvaluateFail ==
    /\ pc = "evaluate"
    /\ Call(EvaluateCall)
    /\ \E d \in Draws : rng' = Consume(rng, d)
    /\ Raise("TaskError")
    /\ UNCHANGED <<config, fs, device, tokenizer, MODEL_TYPE, model, tag,
                   output_dir, now, i, task, saved, nextId>>

SaveMetricsCall ==
    [op |-> "save_metrics", task |-> Get(task).name, output_dir |-> Get(output_dir)]

\* Line 95.
SaveMetrics ==
    /\ pc = "save"
    /\ Call(SaveMetricsCall)
    /\ saved' = Append(saved, [task |-> Get(task).name, output_dir |-> Get(output_dir)])
    /\ \E d \in Draws : rng' = Consume(rng, d)
    /\ pc' = "for"
    /\ UNCHANGED <<config, fs, error, device, tokenizer, MODEL_TYPE, model,
                   tag, output_dir, now, i, task, nextId>>

SaveMetricsFail ==
    /\ pc = "save"
    /\ Call(SaveMetricsCall)
    /\ \E d \in Draws : rng' = Consume(rng, d)
    /\ Raise("TaskError")
    /\ UNCHANGED <<config, fs, device, tokenizer, MODEL_TYPE, model, tag,
                   output_dir, now, i, task, saved, nextId>>

-----------------------------------------------------------------------------

Next ==
    \/ RaiseNoTasks
    \/ RaiseNoDataDir
    \/ RaiseDataDirMissing
    \/ Validated
    \/ InitDevice
    \/ LoadTokenizer
    \/ LoadTokenizerFail
    \/ LoadModel
    \/ LoadModelFail
    \/ Export
    \/ ExportFail
    \/ ForNext
    \/ ForEnd
    \/ Resolve
    \/ ResolveFail
    \/ Seed
    \/ Evaluate
    \/ EvaluateFail
    \/ SaveMetrics
    \/ SaveMetricsFail

Spec == Init /\ [][Next]_vars

-----------------------------------------------------------------------------
(* Properties *)

\* The calls of the trace made to op.
Calls(op) == {k \in 1..Len(trace) : trace[k].op = op}

NoLoadStarted ==
    /\ Calls("AutoTokenizer.from_pretrained") = {}
    /\ Calls("MODEL_TYPE.from_pretrained") = {}
    /\ tokenizer = NoTokenizer
    /\ model = NoModel

\* C1: with an empty eval_tasks list main() fails with the configuration
\* error (ValueError) as its only step, and no tokenizer or model load is
\* ever started in that run.
C1_EmptyTasksFailBeforeLoad ==
    eval_args.eval_tasks = <<>> =>
        /\ pc \in {"validate", "failed"}
        /\ pc = "validate" => ENABLED Next
        /\ pc = "failed" => error = "ValueError"
        /\ NoLoadStarted

C1_Witness ==
    eval_args.eval_tasks = <<>> /\ pc = "failed" /\ error = "ValueError"

HasJigsaw ==
    \E k \in DOMAIN eval_args.eval_tasks :
        eval_args.eval_tasks[k] = "jigsaw_toxicity_pred"

DataDirUnusable ==
    \/ eval_args.data_dir = None
    \/ \E p \in eval_args.data_dir : p \notin fs_at_start

\* C2: when eval_tasks contains jigsaw_toxicity_pred, at any position, and
\* data_dir is None or is not on disk, main() fails with the configuration
\* error (ValueError) before the tokenizer or the model is loaded.
C2_JigsawNeedsDataDir ==
    (HasJigsaw /\ DataDirUnusable) =>
        /\ pc \in {"validate", "failed"}
        /\ pc = "validate" => ENABLED Next
        /\ pc = "failed" => error = "ValueError"
        /\ NoLoadStarted

\* jigsaw_toxicity_pred listed last, after another task, with a data_dir that
\* is given but absent.
C2_Witness ==
    /\ Len(eval_args.eval_tasks) >= 2
    /\ eval_args.eval_tasks[1] # "jigsaw_toxicity_pred"
    /\ eval_args.eval_tasks[Len(eval_args.eval_tasks)] = "jigsaw_toxicity_pred"
    /\ eval_args.data_dir = Some(OtherPath)
    /\ pc = "failed"
    /\ error = "ValueError"

\* C10: a run that failed in validation or in loading has left the
\* filesystem as it found it, has created no output directory, resolved no
\* task and never set the random seed.
C10_FailedEarlyLeavesNoTrace ==
    (pc = "failed" /\ error \in {"ValueError", "LoadError"}) =>
        /\ fs = fs_at_start
        /\ Calls("os.makedirs") = {}
        /\ output_dir = None
        /\ Calls("AutoTask.from_task_name") = {}
        /\ task = None
        /\ Calls("set_seed") = {}
        /\ rng = Unseeded

\* The model load failed, after the tokenizer was loaded.
C10_Witness ==
    /\ pc = "failed"
    /\ error = "LoadError"
    /\ Calls("MODEL_TYPE.from_pretrained") # {}

LoadOps == {"AutoTokenizer.from_pretrained", "MODEL_TYPE.from_pretrained"}

IsDispatchCall(e) == e.op \notin LoadOps

\* The calls from the export step on, in the order made.
DispatchTrace == SelectSeq(trace, IsDispatchCall)

StepOps == <<"AutoTask.from_task_name", "set_seed", "evaluate", "save_metrics">>

\* The k-th call of a run over eval_tasks in which nothing fails:
\* makedirs, then resolve, seed, evaluate, save for each task in turn.
ExpectedCall(k) ==
    IF k = 1 THEN <<"os.makedirs", "-">>
    ELSE LET j == ((k - 2) \div 4) + 1
             r == ((k - 2) % 4) + 1
         IN <<StepOps[r], IF r = 2 THEN "-" ELSE eval_args.eval_tasks[j]>>

CallShape(e) == <<e.op, IF "task" \in DOMAIN e THEN e.task ELSE "-">>

\* C3: the output directory is created once, before any task is resolved;
\* then the calls are resolve, seed, evaluate, save_metrics for each task in
\* listed order, each once, a task starting only after the save of the one
\* before it; every save_metrics gets the directory that was created; a run
\* in which nothing fails ends having made all 1 + 4N calls.
C3_DispatchOrder ==
    LET d == DispatchTrace
        n == Len(eval_args.eval_tasks)
    IN /\ Len(d) <= 1 + 4 * n
       /\ \A k \in 1..Len(d) : CallShape(d[k]) = ExpectedCall(k)
       /\ \A k \in 1..Len(d) :
             d[k].op = "save_metrics" => d[k].output_dir = d[1].path
       /\ pc = "done" => Len(d) = 1 + 4 * n

\* A finished run over at least two tasks, the first two different.
C3_Witness ==
    /\ pc = "done"
    /\ Len(eval_args.eval_tasks) >= 2
    /\ eval_args.eval_tasks[1] # eval_args.eval_tasks[2]
    /\ Len(saved) = Len(eval_args.eval_tasks)

\* C4: whenever a task's evaluate() begins, the random state is the one
\* set_seed(train_args.seed) produces, and the call just before it is that
\* set_seed: nothing consumes randomness in between, for any task position.
C4_SeededAtEvaluate ==
    /\ pc = "evaluate" => rng = [seed |-> Some(train_args.seed), draws |-> 0]
    /\ \A k \in Calls("evaluate") :
          /\ trace[k].rng = [seed |-> Some(train_args.seed), draws |-> 0]
          /\ k > 1
          /\ trace[k - 1].op = "set_seed"
          /\ trace[k - 1].seed = train_args.seed

\* The evaluation of a second task has begun, after a first task was
\* evaluated and saved.
C4_Witness ==
    /\ Cardinality(Calls("evaluate")) >= 2
    /\ Len(saved) >= 1
    /\ train_args.seed = 1234

\* C5: the tokenizer and the model are each loaded at most once, exactly
\* once before the dispatch loop is entered, and every task is resolved with
\* the model, the tokenizer and the device main() still holds: the same
\* objects, with nothing of them written since the first resolution.
C5_LoadedOnceShared ==
    /\ Cardinality(Calls("AutoTokenizer.from_pretrained")) <= 1
    /\ Cardinality(Calls("MODEL_TYPE.from_pretrained")) <= 1
    /\ pc \in {"for", "resolve", "seed", "evaluate", "save", "done"} =>
          /\ Cardinality(Calls("AutoTokenizer.from_pretrained")) = 1
          /\ Cardinality(Calls("MODEL_TYPE.from_pretrained")) = 1
    /\ \A k \in Calls("AutoTask.from_task_name") :
          /\ trace[k].model = model
          /\ trace[k].tokenizer = tokenizer
          /\ trace[k].device = train_args.device
          /\ \A l \in Calls("AutoTokenizer.from_pretrained") : l < k
          /\ \A l \in Calls("MODEL_TYPE.from_pretrained") : l < k

\* A finished run that resolved at least two tasks.
C5_Witness ==
    /\ pc = "done"
    /\ Cardinality(Calls("AutoTask.from_task_name")) >= 2

StepOf(op) ==
    CASE op = "AutoTask.from_task_name" -> 1
      [] op = "set_seed" -> 2
      [] op = "evaluate" -> 3
      [] op = "save_metrics" -> 4
      [] OTHER -> 0

\* C9: an exception ends the run at once: the error is set exactly when
\* main() has stopped, and a stopped run takes no further step. When
\* resolving, evaluating or saving task i raised, the failing call is the
\* last call made, it is a call for task i, and the metrics saved are
\* exactly those of tasks 1..i-1.
C9_FailureAborts ==
    /\ error # "none" <=> pc = "failed"
    /\ pc = "failed" => ~ENABLED Next
    /\ (pc = "failed" /\ error = "TaskError") =>
          LET d == DispatchTrace
              last == d[Len(d)]
          IN /\ i \in 1..Len(eval_args.eval_tasks)
             /\ last.op \in {"AutoTask.from_task_name", "evaluate", "save_metrics"}
             /\ last.task = eval_args.eval_tasks[i]
             /\ Len(d) = 1 + 4 * (i - 1) + StepOf(last.op)
             /\ saved = [k \in 1..(i - 1) |->
                            [task |-> eval_args.eval_tasks[k],
                             output_dir |-> Get(output_dir)]]

\* The evaluation of the second of at least three tasks raised.
C9_Witness ==
    /\ pc = "failed"
    /\ error = "TaskError"
    /\ i = 2
    /\ Len(eval_args.eval_tasks) >= 3
    /\ Len(saved) = 1
    /\ trace[Len(trace)].op = "evaluate"

Exported == output_dir # None

\* The number a digit character stands for.
DigitValue(c) == CHOOSE v \in 0..9 : Digits[v + 1] = c

\* The number printed at positions k, k+1 of g.
Field(g, k) == 10 * DigitValue(g[k]) + DigitValue(g[k + 1])

\* g is t printed as yymmdd_HHMMSS, to the second.
IsTimestampOf(g, t) ==
    /\ Len(g) = 13
    /\ g[7] = "_"
    /\ \A k \in (1..13) \ {7} : \E v \in 1..10 : Digits[v] = g[k]
    /\ Field(g, 1) = t.year % 100
    /\ Field(g, 3) = t.month
    /\ Field(g, 5) = t.day
    /\ Field(g, 8) = t.hour
    /\ Field(g, 10) = t.minute
    /\ Field(g, 12) = t.second

\* C6, as stated: once exported, the output directory is the path join of
\* train_args.output_dir and the tag; the tag is the supplied string
\* verbatim whenever a tag was supplied, whatever the string, and a
\* timestamp is used only when none was supplied.
C6_AnySuppliedTagVerbatim ==
    Exported =>
        /\ Get(output_dir) = os_path_join(train_args.output_dir, Get(tag))
        /\ eval_args.tag # None => tag = eval_args.tag
        /\ now # None => eval_args.tag = None

\* C6, amended: once exported, the output directory is the path join of
\* train_args.output_dir and the tag; the tag is the supplied string
\* verbatim whenever a non-empty tag was supplied, and is the clock reading
\* printed as yymmdd_HHMMSS exactly when no tag or the empty tag was
\* supplied.
C6_NonEmptyTagVerbatim ==
    Exported =>
        /\ Get(output_dir) = os_path_join(train_args.output_dir, Get(tag))
        /\ (eval_args.tag # None /\ eval_args.tag # Some(<<>>)) =>
              /\ tag = eval_args.tag
              /\ now = None
        /\ (eval_args.tag = None \/ eval_args.tag = Some(<<>>)) =>
              /\ now # None
              /\ IsTimestampOf(Get(tag), Get(now))

\* The empty tag was supplied and the run exported under a timestamp.
C6_Witness ==
    /\ Exported
    /\ eval_args.tag = Some(<<>>)
    /\ Len(Get(tag)) = 13
    /\ Get(output_dir) = train_args.output_dir \o Get(tag)

Loaded == model # NoModel

\* C7: after the loader has run, the model's configured pad token id is the
\* id of the tokenizer's pad token, which is the tokenizer's end-of-sequence
\* token.
C7_PadTokenAligned ==
    Loaded =>
        /\ tokenizer.pad_token = tokenizer.eos_token
        /\ model.config.pad_token_id = pad_token_id(tokenizer)

\* C8: the model type is decided by model_name_or_path alone: the
\* sequence-to-sequence type for bigscience/T0_3B and bigscience/T0, the
\* causal type for every other identifier, one of the two in every run that
\* reaches loading, and the model is loaded as that type.
C8_ModelTypeByIdentifier ==
    /\ pc \in {"export", "for", "resolve", "seed", "evaluate", "save", "done"} =>
          MODEL_TYPE # None /\ Loaded
    /\ MODEL_TYPE # None =>
          /\ MODEL_TYPE \in {Some("AutoModelForSeq2SeqLM"), Some("AutoModelForCausalLM")}
          /\ MODEL_TYPE = Some("AutoModelForSeq2SeqLM") <=>
                \/ eval_args.model_name_or_path = "bigscience/T0_3B"
                \/ eval_args.model_name_or_path = "bigscience/T0"
          /\ \A k \in Calls("MODEL_TYPE.from_pretrained") :
                Some(trace[k].type) = MODEL_TYPE
    /\ Loaded => Some(model.type) = MODEL_TYPE

\* A variant spelling of an allowlisted name, loaded as a causal model with
\* the tokenizer of an allowlisted one.
C8_Witness ==
    /\ Loaded
    /\ eval_args.model_name_or_path = "bigscience/T0pp"
    /\ eval_args.tokenizer_name = Some("bigscience/T0")
    /\ eval_args.config_name # None
    /\ MODEL_TYPE = Some("AutoModelForCausalLM")

====
